---- MODULE Spec2Model ----
(***************************************************************************)
(* Model of pg_duckdb's planner bridge (src/src/pgduckdb_planner.cpp):     *)
(* DuckdbPlanNode -> CreatePlan -> DuckdbPrepare -> PlanQuery.             *)
(*                                                                         *)
(* One planning attempt is a chain of steps, one per statement group of    *)
(* the source, in source order.  The backend is single-threaded, so at     *)
(* most one attempt is in progress; `pc` is its position.                  *)
(***************************************************************************)
EXTENDS Integers, Sequences, FiniteSets, TLC

\* ---------------------------------------------------------------- bounds

\* Largest number of result columns of a prepared statement.
MaxCols == 2

\* ------------------------------------------------------ program constants

InvalidOid == 0
INT4OID == 23
TEXTOID == 25
DEFAULT_COLLATION_OID == 100
\* GUC nesting level of a backend inside a transaction, before NewGUCNestLevel.
BaseGUCNestLevel == 1

\* A null pointer to a node, a statement or a portal.
NoObject == [type |-> "nullptr"]
\* A local that has not been assigned in this attempt.
Unset == [type |-> "unset"]

\* ------------------------------------------------------------ input sets

\* Engine (DuckDB) result types; UNION has no PostgreSQL equivalent.
LogicalTypes == {"INTEGER", "VARCHAR", "UNION"}
ColumnNames == {"a", "b"}
SearchPaths == {"public", "analytics"}
ErrorTexts == {"Parser Error: syntax error"}
Portals == {NoObject, [commandTag |-> "CMDTAG_SELECT"], [commandTag |-> "CMDTAG_EXPLAIN"]}

\* The Query fields the bridge reads or that subquery_planner rewrites.
Queries ==
    [type : {"T_Query"},
     commandType : {"CMD_SELECT", "CMD_INSERT"},
     returningList : {<<>>, <<"id">>},
     hasModifyingCTE : BOOLEAN,
     canSetTag : BOOLEAN,
     rtable : {<<[schema |-> "public", relname |-> "t"]>>},
     jointree : {"raw"}]

SeqsUpTo(S, n) == UNION {[1..k -> S] : k \in 0..n}

\* What context->Prepare can hand back: an error, or a result schema.
PreparedStatements ==
    [error : {TRUE}, errmsg : ErrorTexts, types : {<<>>}, names : {<<>>}]
    \cup
    {[error |-> FALSE, errmsg |-> "", types |-> [k \in DOMAIN c |-> c[k][1]],
      names |-> [k \in DOMAIN c |-> c[k][2]]] :
        c \in SeqsUpTo(LogicalTypes \X ColumnNames, MaxCols)}

NoStatement == [error |-> FALSE, errmsg |-> "", types |-> <<>>, names |-> <<>>]

VARIABLES
    pc,                     \* position inside the planning attempt
    heap,                   \* Query objects: the caller's ("orig") and the copy
    copied_query,           \* DuckdbPrepare: the heap slot copied_query points to
    search_path,            \* current value of the search_path GUC
    GUCNestLevel,           \* guc.c: current nesting level
    guc_stack,              \* guc.c: saved prior values of search_path
    save_nestlevel,         \* DuckdbPrepare local
    entry_search_path,      \* search_path when DuckdbPlanNode was entered
    syscache,               \* type oids that have a pg_type row
    ActivePortal,           \* command tag of the active portal, or nullptr
    duckdb_explain_analyze, \* the global toggle
    query_string,           \* DuckdbPrepare local: the text, as tokens
    duckdb_connection,      \* "none" | "open" | "destroyed"
    prepared_state,         \* "none" | "alive" | "released"
    prepared_query,         \* contents of the prepared statement
    duckdb_node,            \* CreatePlan local: the CustomScan, or nullptr
    i,                      \* CreatePlan loop index (0-based, as in the source)
    duckdb_plan,            \* what CreatePlan returned: "unset", nullptr or a node
    result,                 \* what DuckdbPlanNode returned: "unset", nullptr or a stmt
    log,                    \* elog output at WARNING and above, in order
    calls,                  \* calls made to collaborators in this attempt, in order
    error                   \* "none", or the ereport(ERROR) propagating out

vars == <<pc, heap, copied_query, search_path, GUCNestLevel, guc_stack,
          save_nestlevel, entry_search_path, syscache, ActivePortal,
          duckdb_explain_analyze, query_string, duckdb_connection,
          prepared_state, prepared_query, duckdb_node, i, duckdb_plan, result,
          log, calls, error>>

gucVars == <<search_path, GUCNestLevel, guc_stack, save_nestlevel>>
planVars == <<duckdb_node, i, duckdb_plan, result>>
handleVars == <<duckdb_connection, prepared_state, prepared_query>>

\* ------------------------------------------------------- collaborators

\* pgduckdb::GetPostgresDuckDBType: the Type Mapper.
GetPostgresDuckDBType(column) ==
    CASE column = "INTEGER" -> INT4OID
      [] column = "VARCHAR" -> TEXTOID
      [] OTHER -> InvalidOid

OidIsValid(oid) == oid # InvalidOid

\* SearchSysCache1(TYPEOID, oid): the pg_type row, or nullptr.
SearchSysCache1(cache, oid) ==
    IF oid \in cache
    THEN [type |-> "HeapTuple", typtypmod |-> -1,
          typcollation |-> IF oid = TEXTOID THEN DEFAULT_COLLATION_OID ELSE InvalidOid]
    ELSE NoObject

HeapTupleIsValid(tp) == tp # NoObject

\* pgduckdb_pg_get_querydef: a relation is schema-qualified unless its schema
\* is on the search_path in effect while deparsing.
pgduckdb_pg_get_querydef(q, path) ==
    LET rel == q.rtable[1]
    IN  <<"SELECT * FROM ">> \o
        (IF rel.schema = path THEN <<rel.relname>>
                              ELSE <<rel.schema, ".", rel.relname>>)

\* subquery_planner rewrites the Query it is given in place.
subquery_planner(q) == [q EXCEPT !.jointree = "preprocessed"]

\* guc.c: NewGUCNestLevel returns ++GUCNestLevel.
NewGUCNestLevel(level) == level + 1

\* guc.c: SetConfigOption saves the prior value once per nesting level.
PushGUC(stack, level, prior) ==
    IF stack # <<>> /\ stack[Len(stack)].nest_level >= level
    THEN stack
    ELSE Append(stack, [nest_level |-> level, prior |-> prior])

\* guc.c: AtEOXact_GUC(false, nestLevel) pops every entry saved at nestLevel
\* or deeper and puts the prior value back.
RECURSIVE AtEOXact_GUC(_, _, _)
AtEOXact_GUC(stack, path, nestLevel) ==
    IF stack # <<>> /\ stack[Len(stack)].nest_level >= nestLevel
    THEN AtEOXact_GUC(SubSeq(stack, 1, Len(stack) - 1),
                      stack[Len(stack)].prior, nestLevel)
    ELSE [stack |-> stack, path |-> path]

\* ------------------------------------------------------------------ Init

Init ==
    /\ pc = "idle"
    /\ heap \in [orig : Queries, copy : {NoObject}]
    /\ copied_query = "null"
    /\ search_path \in SearchPaths
    /\ GUCNestLevel = BaseGUCNestLevel
    /\ guc_stack = <<>>
    /\ save_nestlevel = 0
    /\ entry_search_path = search_path
    /\ syscache \in {{INT4OID, TEXTOID}, {INT4OID}}
    /\ ActivePortal = NoObject
    /\ duckdb_explain_analyze = FALSE
    /\ query_string = <<>>
    /\ duckdb_connection = "none"
    /\ prepared_state = "none"
    /\ prepared_query = NoStatement
    /\ duckdb_node = NoObject
    /\ i = 0
    /\ duckdb_plan = Unset
    /\ result = Unset
    /\ log = <<>>
    /\ calls = <<>>
    /\ error = "none"


\* ------------------------------------------------- host-side state changes

\* The duckdb_explain_analyze global is assigned between statements.
SetExplainAnalyze(b) ==
    /\ pc = "idle"
    /\ b # duckdb_explain_analyze
    /\ duckdb_explain_analyze' = b
    /\ UNCHANGED <<pc, heap, copied_query, gucVars, entry_search_path, syscache,
                   ActivePortal, query_string, handleVars, planVars, log, calls,
                   error>>

\* --------------------------------------------------------- DuckdbPlanNode

\* The host calls DuckdbPlanNode(parse, cursor_options, bound_params), which
\* calls CreatePlan, which calls DuckdbPrepare.
DuckdbPlanNode(parse, portal) ==
    /\ pc = "idle"
    /\ heap' = [orig |-> parse, copy |-> NoObject]
    /\ ActivePortal' = portal
    /\ entry_search_path' = search_path
    /\ pc' = "copy"
    /\ UNCHANGED <<copied_query, gucVars, syscache, duckdb_explain_analyze,
                   query_string, handleVars, planVars, log, calls, error>>

\* ---------------------------------------------------------- DuckdbPrepare

\* copyObjectImpl allocates a new object; the mutant hands back its argument.
copyObjectImpl_alias(ptr) == ptr

copyObjectImpl(ptr) == "copy"

\* Query *copied_query = (Query *)copyObjectImpl(query);
CopyQuery ==
    /\ pc = "copy"
    /\ LET p == copyObjectImpl("orig")
       IN  /\ copied_query' = p
           /\ heap' = [heap EXCEPT ![p] = heap.orig]
    /\ pc' = "guc"
    /\ UNCHANGED <<gucVars, entry_search_path, syscache, ActivePortal,
                   duckdb_explain_analyze, query_string, handleVars, planVars,
                   log, calls, error>>

\* NewGUCNestLevel(); SetConfigOption("search_path", "", ...);
ClearSearchPath ==
    /\ pc = "guc"
    /\ LET level == NewGUCNestLevel(GUCNestLevel)
       IN  /\ save_nestlevel' = level
           /\ GUCNestLevel' = level
           /\ guc_stack' = PushGUC(guc_stack, level, search_path)
           /\ search_path' = ""
    /\ pc' = "deparse"
    /\ UNCHANGED <<heap, copied_query, entry_search_path, syscache, ActivePortal,
                   duckdb_explain_analyze, query_string, handleVars, planVars,
                   log, calls, error>>

\* pgduckdb_pg_get_querydef returns; AtEOXact_GUC(false, save_nestlevel).
DeparseOk ==
    /\ pc = "deparse"
    /\ calls' = Append(calls, "pgduckdb_pg_get_querydef")
    /\ query_string' = pgduckdb_pg_get_querydef(heap[copied_query], search_path)
    /\ LET r == AtEOXact_GUC(guc_stack, search_path, save_nestlevel)
       IN  /\ guc_stack' = r.stack
           /\ search_path' = r.path
           /\ GUCNestLevel' = save_nestlevel - 1
    /\ pc' = "wrap"
    /\ UNCHANGED <<heap, copied_query, save_nestlevel, entry_search_path, syscache,
                   ActivePortal, duckdb_explain_analyze, handleVars, planVars,
                   log, error>>

\* Faulty variant: the failure is swallowed and DuckdbPrepare carries on.
DeparseFail_continue ==
    /\ pc = "deparse"
    /\ calls' = Append(calls, "pgduckdb_pg_get_querydef")
    /\ error' = "deparse"
    /\ log' = Append(log, [level |-> "ERROR", fmt |-> "could not deparse", arg |-> ""])
    /\ pc' = "wrap"
    /\ UNCHANGED <<heap, copied_query, gucVars, entry_search_path, syscache,
                   ActivePortal, duckdb_explain_analyze, query_string, handleVars,
                   planVars>>

\* pgduckdb_pg_get_querydef does ereport(ERROR): control leaves DuckdbPrepare,
\* CreatePlan and DuckdbPlanNode by longjmp; line 75 is not reached.
DeparseFail ==
    /\ pc = "deparse"
    /\ calls' = Append(calls, "pgduckdb_pg_get_querydef")
    /\ error' = "deparse"
    /\ log' = Append(log, [level |-> "ERROR", fmt |-> "could not deparse", arg |-> ""])
    /\ pc' = "raised"
    /\ UNCHANGED <<heap, copied_query, gucVars, entry_search_path, syscache,
                   ActivePortal, duckdb_explain_analyze, query_string, handleVars,
                   planVars>>

\* Faulty variant: the two prefixes are exchanged.
ExplainPrefix_swapped(portal, analyze) ==
    IF portal # NoObject /\ portal.commandTag = "CMDTAG_EXPLAIN"
    THEN IF analyze THEN <<"EXPLAIN ">> ELSE <<"EXPLAIN ANALYZE ">>
    ELSE <<>>

\* The format string psprintf is given, up to its %s.
ExplainPrefix(portal, analyze) ==
    IF portal # NoObject /\ portal.commandTag = "CMDTAG_EXPLAIN"
    THEN IF analyze THEN <<"EXPLAIN ANALYZE ">> ELSE <<"EXPLAIN ">>
    ELSE <<>>

\* if (ActivePortal && ActivePortal->commandTag == CMDTAG_EXPLAIN) ...
ExplainWrap ==
    /\ pc = "wrap"
    /\ query_string' = ExplainPrefix(ActivePortal, duckdb_explain_analyze) \o query_string
    /\ pc' = "plan"
    /\ UNCHANGED <<heap, copied_query, gucVars, entry_search_path, syscache,
                   ActivePortal, duckdb_explain_analyze, handleVars, planVars,
                   log, calls, error>>

\* pull_var_clause on the copy, then PlanQuery(copied_query, bound_params):
\* subquery_planner rewrites *copied_query.
PlanQuery ==
    /\ pc = "plan"
    /\ calls' = Append(calls, "subquery_planner")
    /\ heap' = [heap EXCEPT ![copied_query] = subquery_planner(@)]
    /\ pc' = "connect"
    /\ UNCHANGED <<copied_query, gucVars, entry_search_path, syscache, ActivePortal,
                   duckdb_explain_analyze, query_string, handleVars, planVars,
                   log, error>>

\* subquery_planner does ereport(ERROR): the attempt is abandoned by longjmp.
PlanQueryFail ==
    /\ pc = "plan"
    /\ calls' = Append(calls, "subquery_planner")
    /\ error' = "planner"
    /\ log' = Append(log, [level |-> "ERROR", fmt |-> "could not plan", arg |-> ""])
    /\ pc' = "raised"
    /\ UNCHANGED <<heap, copied_query, gucVars, entry_search_path, syscache,
                   ActivePortal, duckdb_explain_analyze, query_string, handleVars,
                   planVars>>

\* pgduckdb::DuckdbCreateConnection(rtables, query_planner_info, vars, query_string)
DuckdbCreateConnection ==
    /\ pc = "connect"
    /\ calls' = Append(calls, "DuckdbCreateConnection")
    /\ duckdb_connection' = "open"
    /\ pc' = "prepare"
    /\ UNCHANGED <<heap, copied_query, gucVars, entry_search_path, syscache,
                   ActivePortal, duckdb_explain_analyze, query_string,
                   prepared_state, prepared_query, planVars, log, error>>

\* context->Prepare(query_string); the pair is returned to CreatePlan.  A
\* failure to prepare comes back inside the statement, not as an exception.
Prepare(stmt) ==
    /\ pc = "prepare"
    /\ calls' = Append(calls, "Prepare")
    /\ prepared_query' = stmt
    /\ prepared_state' = "alive"
    /\ pc' = "check"
    /\ UNCHANGED <<heap, copied_query, gucVars, entry_search_path, syscache,
                   ActivePortal, duckdb_explain_analyze, query_string,
                   duckdb_connection, planVars, log, error>>


\* ------------------------------------------------------------- CreatePlan

\* Faulty variant: the warning is logged but CreatePlan does not return.
PrepareError_fallthrough ==
    /\ pc = "check"
    /\ prepared_query.error
    /\ calls' = calls \o <<"HasError", "GetError", "GetTypes">>
    /\ log' = Append(log, [level |-> "WARNING",
                           fmt |-> "Prepared query returned an error",
                           arg |-> prepared_query.errmsg])
    /\ duckdb_node' = [type |-> "T_CustomScan", custom_scan_tlist |-> <<>>,
                       custom_private |-> <<>>, methods |-> "null"]
    /\ i' = 0
    /\ pc' = "loop"
    /\ UNCHANGED <<heap, copied_query, gucVars, entry_search_path, syscache,
                   ActivePortal, duckdb_explain_analyze, query_string, handleVars,
                   duckdb_plan, result, error>>

\* if (prepared_query->HasError()) { elog(WARNING, ...); return nullptr; }
PrepareError ==
    /\ pc = "check"
    /\ prepared_query.error
    /\ calls' = calls \o <<"HasError", "GetError">>
    /\ log' = Append(log, [level |-> "WARNING",
                           fmt |-> "Prepared query returned an error",
                           arg |-> prepared_query.errmsg])
    /\ duckdb_plan' = NoObject
    /\ pc' = "destroy1"
    /\ UNCHANGED <<heap, copied_query, gucVars, entry_search_path, syscache,
                   ActivePortal, duckdb_explain_analyze, query_string, handleVars,
                   duckdb_node, i, result, error>>

\* makeNode(CustomScan); prepared_query->GetTypes(); i = 0.
MakeCustomScan ==
    /\ pc = "check"
    /\ ~prepared_query.error
    /\ calls' = calls \o <<"HasError", "GetTypes">>
    /\ duckdb_node' = [type |-> "T_CustomScan", custom_scan_tlist |-> <<>>,
                       custom_private |-> <<>>, methods |-> "null"]
    /\ i' = 0
    /\ pc' = "loop"
    /\ UNCHANGED <<heap, copied_query, gucVars, entry_search_path, syscache,
                   ActivePortal, duckdb_explain_analyze, query_string, handleVars,
                   duckdb_plan, result, log, error>>

\* Faulty variant: the 0-based loop index is used as the position.
TargetEntry_zero_based(idx, oid, typtup, names) ==
    [expr |-> [varno |-> "INDEX_VAR", varattno |-> idx, vartype |-> oid,
               vartypmod |-> typtup.typtypmod, varcollid |-> typtup.typcollation,
               varlevelsup |-> 0],
     resno |-> idx, resname |-> names[idx + 1], resjunk |-> FALSE]

\* makeTargetEntry(makeVar(INDEX_VAR, i + 1, oid, typmod, collation, 0),
\*                 i + 1, pstrdup(GetNames()[i]), false)
TargetEntry(idx, oid, typtup, names) ==
    [expr |-> [varno |-> "INDEX_VAR", varattno |-> idx + 1, vartype |-> oid,
               vartypmod |-> typtup.typtypmod, varcollid |-> typtup.typcollation,
               varlevelsup |-> 0],
     resno |-> idx + 1, resname |-> names[idx + 1], resjunk |-> FALSE]

\* The loop's column, its mapped oid.  (C++ vectors are 0-based, sequences 1-based.)
Column == prepared_query.types[i + 1]
postgresColumnOid == GetPostgresDuckDBType(Column)

\* Faulty variant: the column is skipped and the loop goes on.
TypeMapInvalid_skip ==
    /\ pc = "loop"
    /\ i < Len(prepared_query.types)
    /\ ~OidIsValid(postgresColumnOid)
    /\ calls' = Append(calls, "GetPostgresDuckDBType")
    /\ log' = Append(log, [level |-> "WARNING", fmt |-> "Cache lookup failed for type",
                           arg |-> postgresColumnOid])
    /\ i' = i + 1
    /\ UNCHANGED <<pc, heap, copied_query, gucVars, entry_search_path, syscache,
                   ActivePortal, duckdb_explain_analyze, query_string, handleVars,
                   duckdb_node, duckdb_plan, result, error>>

\* if (!OidIsValid(postgresColumnOid)) { elog(WARNING, ...); return nullptr; }
TypeMapInvalid ==
    /\ pc = "loop"
    /\ i < Len(prepared_query.types)
    /\ ~OidIsValid(postgresColumnOid)
    /\ calls' = Append(calls, "GetPostgresDuckDBType")
    /\ log' = Append(log, [level |-> "WARNING", fmt |-> "Cache lookup failed for type",
                           arg |-> postgresColumnOid])
    /\ duckdb_plan' = NoObject
    /\ pc' = "destroy1"
    /\ UNCHANGED <<heap, copied_query, gucVars, entry_search_path, syscache,
                   ActivePortal, duckdb_explain_analyze, query_string, handleVars,
                   duckdb_node, i, result, error>>

\* if (!HeapTupleIsValid(tp)) { elog(WARNING, ...); return nullptr; }
TypeCacheMiss ==
    /\ pc = "loop"
    /\ i < Len(prepared_query.types)
    /\ OidIsValid(postgresColumnOid)
    /\ ~HeapTupleIsValid(SearchSysCache1(syscache, postgresColumnOid))
    /\ calls' = calls \o <<"GetPostgresDuckDBType", "SearchSysCache1">>
    /\ log' = Append(log, [level |-> "WARNING", fmt |-> "Cache lookup failed for type",
                           arg |-> postgresColumnOid])
    /\ duckdb_plan' = NoObject
    /\ pc' = "destroy1"
    /\ UNCHANGED <<heap, copied_query, gucVars, entry_search_path, syscache,
                   ActivePortal, duckdb_explain_analyze, query_string, handleVars,
                   duckdb_node, i, result, error>>

\* makeVar, makeTargetEntry, lappend, ReleaseSysCache; i++.
AppendColumn ==
    /\ pc = "loop"
    /\ i < Len(prepared_query.types)
    /\ OidIsValid(postgresColumnOid)
    /\ HeapTupleIsValid(SearchSysCache1(syscache, postgresColumnOid))
    /\ calls' = calls \o <<"GetPostgresDuckDBType", "SearchSysCache1", "GetNames">>
    /\ duckdb_node' =
         [duckdb_node EXCEPT !.custom_scan_tlist =
            Append(@, TargetEntry(i, postgresColumnOid,
                                  SearchSysCache1(syscache, postgresColumnOid),
                                  prepared_query.names))]
    /\ i' = i + 1
    /\ UNCHANGED <<pc, heap, copied_query, gucVars, entry_search_path, syscache,
                   ActivePortal, duckdb_explain_analyze, query_string, handleVars,
                   duckdb_plan, result, log, error>>

\* custom_private = list_make1(query); methods = ...; return (Plan *)duckdb_node;
FinishCustomScan ==
    /\ pc = "loop"
    /\ i >= Len(prepared_query.types)
    /\ duckdb_node' = [duckdb_node EXCEPT !.custom_private = <<"orig">>,
                                          !.methods = "duckdb_scan_scan_methods"]
    /\ duckdb_plan' = duckdb_node'
    /\ pc' = "destroy1"
    /\ UNCHANGED <<heap, copied_query, gucVars, entry_search_path, syscache,
                   ActivePortal, duckdb_explain_analyze, query_string, handleVars,
                   i, result, log, calls, error>>

\* Faulty variant: the pair holding the connection is destroyed first.
DestructionOrder_session_first == <<"prepare_result", "prepared_query">>

\* CreatePlan's locals with destructors, in the order a return destroys them:
\* the reverse of their declaration (prepare_result, then prepared_query).
DestructionOrder == <<"prepared_query", "prepare_result">>

\* A return from CreatePlan runs the destructors.  prepared_query owns the
\* statement; prepare_result still owns the connection (only element 0 of the
\* pair was moved out).
DestroyLocal(k) ==
    /\ pc = (IF k = 1 THEN "destroy1" ELSE "destroy2")
    /\ IF DestructionOrder[k] = "prepared_query"
       THEN prepared_state' = "released" /\ UNCHANGED duckdb_connection
       ELSE duckdb_connection' = "destroyed" /\ UNCHANGED prepared_state
    /\ pc' = (IF k = 1 THEN "destroy2" ELSE "planned")
    /\ UNCHANGED <<heap, copied_query, gucVars, entry_search_path, syscache,
                   ActivePortal, duckdb_explain_analyze, query_string,
                   prepared_query, planVars, log, calls, error>>

\* ------------------------------------------- DuckdbPlanNode, after CreatePlan

\* Faulty variant: the range table of the source tree is carried over.
MakePlannedStmt_keeps_rtable(parse, plan) ==
    [commandType |-> parse.commandType,
     hasReturning |-> (parse.returningList # <<>>),
     hasModifyingCTE |-> parse.hasModifyingCTE,
     canSetTag |-> parse.canSetTag,
     transientPlan |-> FALSE, dependsOnRole |-> FALSE, parallelModeNeeded |-> FALSE,
     planTree |-> plan,
     rtable |-> parse.rtable, permInfos |-> <<>>, resultRelations |-> <<>>,
     appendRelations |-> <<>>, subplans |-> <<>>, rewindPlanIDs |-> <<>>,
     rowMarks |-> <<>>, relationOids |-> <<>>, invalItems |-> <<>>,
     paramExecTypes |-> <<>>]

\* PlannedStmt *result = makeNode(PlannedStmt); result->... = ...;
MakePlannedStmt(parse, plan) ==
    [commandType |-> parse.commandType,
     hasReturning |-> (parse.returningList # <<>>),
     hasModifyingCTE |-> parse.hasModifyingCTE,
     canSetTag |-> parse.canSetTag,
     transientPlan |-> FALSE, dependsOnRole |-> FALSE, parallelModeNeeded |-> FALSE,
     planTree |-> plan,
     rtable |-> <<>>, permInfos |-> <<>>, resultRelations |-> <<>>,
     appendRelations |-> <<>>, subplans |-> <<>>, rewindPlanIDs |-> <<>>,
     rowMarks |-> <<>>, relationOids |-> <<>>, invalItems |-> <<>>,
     paramExecTypes |-> <<>>]

\* if (!duckdb_plan) return nullptr; ... return result;
DuckdbPlanNodeReturn ==
    /\ pc = "planned"
    /\ result' = IF duckdb_plan = NoObject
                 THEN NoObject
                 ELSE MakePlannedStmt(heap.orig, duckdb_plan)
    /\ pc' = "returned"
    /\ UNCHANGED <<heap, copied_query, gucVars, entry_search_path, syscache,
                   ActivePortal, duckdb_explain_analyze, query_string, handleVars,
                   duckdb_node, i, duckdb_plan, log, calls, error>>

\* The caller has the return value; the frames of the attempt are gone.
ReturnToCaller ==
    /\ pc = "returned"
    /\ pc' = "idle"
    /\ heap' = [heap EXCEPT !.copy = NoObject]
    /\ copied_query' = "null"
    /\ ActivePortal' = NoObject
    /\ query_string' = <<>>
    /\ duckdb_connection' = "none"
    /\ prepared_state' = "none"
    /\ prepared_query' = NoStatement
    /\ duckdb_node' = NoObject
    /\ i' = 0
    /\ duckdb_plan' = Unset
    /\ result' = Unset
    /\ log' = <<>>
    /\ calls' = <<>>
    /\ save_nestlevel' = 0
    /\ UNCHANGED <<search_path, GUCNestLevel, guc_stack, entry_search_path,
                   syscache, duckdb_explain_analyze, error>>

\* ------------------------------------------------------------ specification

Next ==
    \/ \E b \in BOOLEAN : SetExplainAnalyze(b)
    \/ \E parse \in Queries, portal \in Portals : DuckdbPlanNode(parse, portal)
    \/ CopyQuery
    \/ ClearSearchPath
    \/ DeparseOk
    \/ DeparseFail
    \/ ExplainWrap
    \/ PlanQuery
    \/ PlanQueryFail
    \/ DuckdbCreateConnection
    \/ \E stmt \in PreparedStatements : Prepare(stmt)
    \/ PrepareError
    \/ MakeCustomScan
    \/ TypeMapInvalid
    \/ TypeCacheMiss
    \/ AppendColumn
    \/ FinishCustomScan
    \/ \E k \in 1..2 : DestroyLocal(k)
    \/ DuckdbPlanNodeReturn
    \/ ReturnToCaller

Spec == Init /\ [][Next]_vars


\* ------------------------------------------------------ state descriptions

\* DuckdbPrepare has been left, by return or by an error propagating out.
AfterDuckdbPrepare ==
    pc \in {"check", "loop", "destroy1", "destroy2", "planned", "returned", "raised"}

\* CreatePlan has executed one of its return statements.
CreatePlanReturned == pc \in {"destroy1", "destroy2", "planned", "returned"}

\* Lines 77-83 have run and the attempt is still going.
PastExplainWrap ==
    pc \in {"plan", "connect", "prepare", "check", "loop", "destroy1", "destroy2",
            "planned", "returned"}

Called(name) == \E k \in 1..Len(calls) : calls[k] = name
TimesCalled(name) == Cardinality({k \in 1..Len(calls) : calls[k] = name})
CalledBefore(first, k) == \E j \in 1..(k - 1) : calls[j] = first

\* Column k of the statement (1-based) cannot be given a host type.
BadColumn(k) ==
    LET oid == GetPostgresDuckDBType(prepared_query.types[k])
    IN  \/ ~OidIsValid(oid)
        \/ ~HeapTupleIsValid(SearchSysCache1(syscache, oid))

TypeFailure ==
    /\ ~prepared_query.error
    /\ \E k \in 1..Len(prepared_query.types) : BadColumn(k)

\* --------------------------------------------------------------- claims

\* C1: after DuckdbPrepare the search_path is what it was before the call, on
\* every exit path: when pgduckdb_pg_get_querydef returns, and when it fails
\* and the failure propagates out of the call.
C1_SearchPathRestoredOnEveryExit ==
    AfterDuckdbPrepare => search_path = entry_search_path

\* C2: during a call of DuckdbPlanNode, whatever it returns, no step writes to
\* the caller's query tree; only the copy made by DuckdbPrepare is rewritten.
C2_OriginalTreeUnchanged ==
    [][pc # "idle" => heap'.orig = heap.orig]_vars

C2_Witness ==
    /\ pc = "returned"
    /\ prepared_query.error
    /\ result = NoObject
    /\ heap.copy.jointree = "preprocessed"
    /\ heap.orig.jointree = "raw"

\* C3: a node returned by CreatePlan has one target entry per result column of
\* the statement, and entry k (1-based) is an INDEX_VAR reference to position k
\* with the mapped type and the name of column k.
C3_SchemaMatchesHandle ==
    (CreatePlanReturned /\ duckdb_plan # NoObject) =>
        LET tlist == duckdb_plan.custom_scan_tlist
        IN  /\ ~prepared_query.error
            /\ Len(tlist) = Len(prepared_query.types)
            /\ \A k \in 1..Len(tlist) :
                 /\ tlist[k].resno = k
                 /\ tlist[k].expr.varno = "INDEX_VAR"
                 /\ tlist[k].expr.varattno = k
                 /\ tlist[k].expr.vartype = GetPostgresDuckDBType(prepared_query.types[k])
                 /\ OidIsValid(tlist[k].expr.vartype)
                 /\ tlist[k].resname = prepared_query.names[k]

C3_Witness ==
    /\ pc = "returned"
    /\ duckdb_plan # NoObject
    /\ prepared_query.types = <<"INTEGER", "VARCHAR">>
    /\ prepared_query.names = <<"a", "b">>
    /\ Len(duckdb_plan.custom_scan_tlist) = 2

\* C4 as claimed: when a result column has no host type or no pg_type row,
\* CreatePlan returns null and no node was built, not even a partial one.
C4_NoNodeBuilt ==
    (CreatePlanReturned /\ TypeFailure) =>
        /\ duckdb_plan = NoObject
        /\ duckdb_node = NoObject

\* C4 as amended: when a result column has no host type or no pg_type row,
\* CreatePlan returns null and DuckdbPlanNode returns null, wherever the column
\* is; the node CreatePlan had allocated is never returned.
C4_NoNodeReturned ==
    (CreatePlanReturned /\ TypeFailure) =>
        /\ duckdb_plan = NoObject
        /\ pc = "returned" => result = NoObject

C4_Witness ==
    /\ pc = "returned"
    /\ TypeFailure
    /\ ~BadColumn(1)
    /\ BadColumn(2)
    /\ Len(duckdb_node.custom_scan_tlist) = 1
    /\ result = NoObject

\* C5: when the statement carries an error, CreatePlan reads no result type or
\* name, logs the engine's error text once as a WARNING and returns null, and
\* DuckdbPlanNode returns null; no ERROR is raised.
C5_PrepareErrorIsASoftNull ==
    /\ \A k \in 1..Len(calls) :
         calls[k] \in {"GetTypes", "GetNames"} =>
            ~prepared_query.error /\ CalledBefore("HasError", k)
    /\ (CreatePlanReturned /\ prepared_query.error) =>
         /\ duckdb_plan = NoObject
         /\ duckdb_node = NoObject
         /\ log = <<[level |-> "WARNING", fmt |-> "Prepared query returned an error",
                     arg |-> prepared_query.errmsg]>>
         /\ error = "none"
         /\ pc = "returned" => result = NoObject

C5_Witness ==
    /\ pc = "returned"
    /\ prepared_query.error
    /\ result = NoObject
    /\ Len(log) = 1
    /\ Called("HasError")

\* C6: the prepared statement is released no later than the connection that
\* DuckdbPrepare opened for it: the connection is never destroyed while the
\* statement is alive.
C6_HandleDoesNotOutliveSession ==
    prepared_state = "alive" => duckdb_connection = "open"

C6_Witness ==
    /\ pc = "planned"
    /\ TypeFailure
    /\ prepared_state = "released"
    /\ duckdb_connection = "destroyed"

\* C7: when the type mapping of a column fails, by the invalid sentinel or by a
\* pg_type miss, the WARNING names the type identifier of that column and
\* CreatePlan returns null.
C7_WarningIdentifiesType ==
    (CreatePlanReturned /\ TypeFailure) =>
        /\ duckdb_plan = NoObject
        /\ Len(log) = 1
        /\ log[1].level = "WARNING"
        /\ OidIsValid(log[1].arg)
        /\ log[1].arg = GetPostgresDuckDBType(prepared_query.types[i + 1])

\* C8: the text handed to Prepare is the deparsed text, prefixed by
\* "EXPLAIN ANALYZE " or "EXPLAIN " (by the toggle) exactly when the active
\* portal's command tag is EXPLAIN; and assigning the toggle changes nothing
\* else.
C8_ExplainPrefixFollowsToggle ==
    /\ [](PastExplainWrap =>
            query_string =
              (IF ActivePortal = [commandTag |-> "CMDTAG_EXPLAIN"]
               THEN IF duckdb_explain_analyze THEN <<"EXPLAIN ANALYZE ">>
                                              ELSE <<"EXPLAIN ">>
               ELSE <<>>)
              \o pgduckdb_pg_get_querydef(heap.orig, ""))
    /\ [][duckdb_explain_analyze' # duckdb_explain_analyze =>
            UNCHANGED <<pc, heap, copied_query, gucVars, entry_search_path,
                        syscache, ActivePortal, query_string, handleVars,
                        planVars, log, calls, error>>]_vars
    /\ [][pc # "idle" => duckdb_explain_analyze' = duckdb_explain_analyze]_vars

C8_Witness ==
    /\ pc = "check"
    /\ ActivePortal = [commandTag |-> "CMDTAG_EXPLAIN"]
    /\ duckdb_explain_analyze
    /\ query_string[1] = "EXPLAIN ANALYZE "
    /\ Len(query_string) = 5

\* C9: DuckdbPlanNode returns null exactly when CreatePlan does; otherwise the
\* statement's plan tree is CreatePlan's node, its command type and flags are
\* those of the source tree, and every auxiliary list is empty.
C9_PlannedStmtPackaging ==
    pc = "returned" =>
        /\ (result = NoObject) <=> (duckdb_plan = NoObject)
        /\ result # NoObject =>
            /\ result.planTree = duckdb_plan
            /\ result.planTree = duckdb_node
            /\ result.commandType = heap.orig.commandType
            /\ result.hasReturning = (heap.orig.returningList # <<>>)
            /\ result.hasModifyingCTE = heap.orig.hasModifyingCTE
            /\ result.canSetTag = heap.orig.canSetTag
            /\ \A f \in {"rtable", "subplans", "rowMarks", "resultRelations",
                         "appendRelations", "relationOids", "invalItems",
                         "paramExecTypes"} : result[f] = <<>>

C9_Witness ==
    /\ pc = "returned"
    /\ result # NoObject
    /\ result.commandType = "CMD_INSERT"
    /\ result.hasReturning
    /\ ~result.canSetTag
    /\ Len(result.planTree.custom_scan_tlist) = 1

\* C10: in one attempt deparse, open session, prepare and synthesize run in
\* that order, each at most once; Prepare is called only after deparsing
\* succeeded; after a failed deparse no session is opened and Prepare is not
\* called.
C10_StepsInOrderAtMostOnce ==
    /\ \A name \in {"pgduckdb_pg_get_querydef", "DuckdbCreateConnection",
                    "Prepare", "HasError"} : TimesCalled(name) <= 1
    /\ \A k \in 1..Len(calls) :
         /\ calls[k] = "DuckdbCreateConnection" =>
                CalledBefore("pgduckdb_pg_get_querydef", k)
         /\ calls[k] = "Prepare" => CalledBefore("DuckdbCreateConnection", k)
         /\ calls[k] = "HasError" => CalledBefore("Prepare", k)
    /\ Called("Prepare") => error = "none"
    /\ error = "deparse" =>
         /\ pc = "raised"
         /\ duckdb_connection = "none"
         /\ ~Called("DuckdbCreateConnection")
         /\ ~Called("Prepare")

C10_Witness ==
    /\ pc = "returned"
    /\ duckdb_plan = NoObject
    /\ calls[1] = "pgduckdb_pg_get_querydef"
    /\ Called("DuckdbCreateConnection")
    /\ Called("Prepare")
    /\ Called("HasError")

====
